---------------------------- MODULE Spec2Model ----------------------------
(***************************************************************************)
(* Jumpy3: the board, the move generator, the evaluators and the minimax   *)
(* and alpha-beta searches of jumpy3_utils.py, and the Black wrapper of    *)
(* minimaxblack.py.                                                        *)
(*                                                                         *)
(* A board is a function from the cell indices 0..15 (the list indices of  *)
(* the source) to the five cell symbols.                                   *)
(***************************************************************************)
EXTENDS Integers, Sequences, FiniteSets

VARIABLES
  board,          \* the position under play, or the position handed to the searches
  prev,           \* the position before the last move (board itself at the start)
  mover,          \* "none", "white" or "black": who made the last move
  origin,         \* generator-side index of the piece that made the last move
  plies,          \* moves played so far
  kings_at_start, \* whether the starting position held both kings
  depth,          \* search depth handed to the search
  is_white_turn,  \* side to move handed to the search
  eval_fn,        \* evaluator handed to the search
  mm,             \* result of minimax, or Pending
  ab,             \* result of alphabeta, or Pending
  bw              \* result of the Black wrapper, or Pending

vars == <<board, prev, mover, origin, plies, kings_at_start, depth, is_white_turn, eval_fn, mm, ab, bw>>

-----------------------------------------------------------------------------
(* Bounds of the model *)

\* most pieces on a starting position
MaxPieces == 4
\* most moves played from a starting position
MaxPlies == 3
\* greatest search depth
MaxDepth == 3

-----------------------------------------------------------------------------
(* Program constants *)

\* last cell index: range(i+1, 16), i == 15, range(15, -1, -1)
LastCell == 15
\* float('inf')
PosInf == 1000000000
NegInf == -PosInf

Cells == 0..LastCell
Symbols == {"W", "w", "B", "b", "x"}
\* Python's None
None == <<>>

\* list(content): the 16 characters of the board file, as cells 0..15
read_board(content) == [i \in Cells |-> content[i + 1]]

SetMin(S) == CHOOSE m \in S : \A n \in S : m <= n
SetMax(S) == CHOOSE m \in S : \A n \in S : m >= n

-----------------------------------------------------------------------------
(* flip *)

mapping_pawn_kept == [W |-> "B", w |-> "b", B |-> "W", b |-> "b", x |-> "x"]
mapping == [W |-> "B", w |-> "b", B |-> "W", b |-> "w", x |-> "x"]

flip(b) == [i \in Cells |-> mapping[b[LastCell - i]]]

-----------------------------------------------------------------------------
(* generate_white_moves.  Each branch of the loop body yields the boards   *)
(* it appends to moves for the piece at i.                                 *)

\* i == 15: the piece moves out of the board
move_out_not_appended(b, i) == <<>>
move_out(b, i) == <<[b EXCEPT ![i] = "x"]>>

\* new_board[i+1] == 'x': one step
slide_keeping_origin(b, i) == <<[b EXCEPT ![i + 1] = b[i]]>>
slide(b, i) == <<[b EXCEPT ![i + 1] = b[i], ![i] = "x"]>>

\* j is None: no empty square to the right, the piece jumps out
jump_out(b, i) == <<[b EXCEPT ![i] = "x"]>>

\* j - i == 2 over a piece that is not white: the jumped piece goes to the
\* rightmost empty square of jump_board, and its square is cleared
capture_removing(b, i, jump_board) == <<[jump_board EXCEPT ![i + 1] = "x"]>>
capture(b, i, jump_board) ==
  LET jumped_piece == b[i + 1]
      free == {idx \in Cells : jump_board[idx] = "x"}
      placed == IF free # {}
                  THEN [jump_board EXCEPT ![SetMax(free)] = jumped_piece]
                  ELSE jump_board
  IN <<[placed EXCEPT ![i + 1] = "x"]>>

\* the jump to the first empty square j to the right of i
jump(b, i, j) ==
  LET jump_board == [b EXCEPT ![j] = b[i], ![i] = "x"]
  IN IF j - i = 2
       THEN IF b[i + 1] \in {"W", "w"}
              THEN <<jump_board>>
            ELSE capture(b, i, jump_board)
     ELSE <<jump_board>>

white_piece_moves(b, i) ==
  IF i = LastCell THEN move_out(b, i)
  ELSE IF b[i + 1] = "x" THEN slide(b, i)
  ELSE
    LET empties == {idx \in (i + 1)..LastCell : b[idx] = "x"}
    IN IF empties = {} THEN jump_out(b, i)
       ELSE jump(b, i, SetMin(empties))

RECURSIVE white_moves_from(_, _)
white_moves_from(b, i) ==
  IF i > LastCell THEN <<>>
  ELSE IF b[i] \notin {"W", "w"} THEN white_moves_from(b, i + 1)
  ELSE white_piece_moves(b, i) \o white_moves_from(b, i + 1)

generate_white_moves(b) == white_moves_from(b, 0)

generate_black_moves(b) ==
  LET white_moves_on_flipped == generate_white_moves(flip(b))
  IN [n \in 1..Len(white_moves_on_flipped) |-> flip(white_moves_on_flipped[n])]

-----------------------------------------------------------------------------
(* Terminal tests and evaluators *)

white_win(b) == \A i \in Cells : b[i] # "W"
black_win(b) == \A i \in Cells : b[i] # "B"

\* list.index with the except ValueError fallback
index_or(b, piece, fallback) ==
  LET at == {i \in Cells : b[i] = piece}
  IN IF at = {} THEN fallback ELSE SetMin(at)

static_evaluation_black_first(b) ==
  IF black_win(b) THEN -100
  ELSE IF white_win(b) THEN 100
  ELSE index_or(b, "W", 16) + index_or(b, "B", -1) - 15

static_evaluation(b) ==
  IF white_win(b) THEN 100
  ELSE IF black_win(b) THEN -100
  ELSE index_or(b, "W", 16) + index_or(b, "B", -1) - 15


-----------------------------------------------------------------------------
(* The doubles of improved_static_evaluation.                              *)
(*                                                                         *)
(* basic_eval + 0.1 * k is computed in IEEE-754 binary64, round to nearest *)
(* even.  With u = 1 / (10 * 2^56), the double 0.1 is 1/10 + 4u, and every *)
(* double met here is t/10 + e*u for integers t (tenths) and e (rounding   *)
(* error).  A double is carried as the integer t * ErrScale + e, whose     *)
(* order is the order of the doubles because |e| < ErrScale / 2.           *)
(* In units of 2^-56 the double 0.1 is 2 * 3602879701896397, which is 410  *)
(* modulo 512; the low bits are all that rounding to at most 2^8 units     *)
(* reads.                                                                  *)

ErrScale == 4096

RECURSIVE Pow2(_)
Pow2(n) == IF n <= 0 THEN 1 ELSE 2 * Pow2(n - 1)

\* floor(log2(num / 10)) for 1 <= num < 320
Binade(num) ==
  CASE num >= 160 -> 4
    [] num >= 80 /\ num < 160 -> 3
    [] num >= 40 /\ num < 80 -> 2
    [] num >= 20 /\ num < 40 -> 1
    [] num >= 10 /\ num < 20 -> 0
    [] num >= 5 /\ num < 10 -> -1
    [] num >= 3 /\ num < 5 -> -2
    [] num = 2 -> -3
    [] num = 1 -> -4

\* the adjustment that rounds an integer n, known modulo 2^(s+1), to the
\* nearest multiple of 2^s, ties to the even multiple
RoundAdjust(n_mod, s) ==
  IF s <= 0 THEN 0
  ELSE LET m == Pow2(s)
           half == m \div 2
           r == n_mod % m
       IN IF r < half THEN -r
          ELSE IF r > half THEN m - r
          ELSE IF n_mod = half THEN -half ELSE half

\* 0.1 * k: [err |-> e, low |-> the double's low 9 bits in units of 2^-56]
times_tenth(k) ==
  IF k = 0 THEN [err |-> 0, low |-> 0]
  ELSE LET ak == IF k < 0 THEN -k ELSE k
           s == Binade(ak) + 4
           p_mod == (410 * ak) % 512
           d == RoundAdjust(p_mod % Pow2(s + 1), s)
           r_mod == (p_mod + d) % 512
       IN IF k > 0 THEN [err |-> 4 * ak + 10 * d, low |-> r_mod]
          ELSE [err |-> -(4 * ak + 10 * d), low |-> (512 - r_mod) % 512]

\* basic_eval + mobility_bonus
float_add(basic_eval, k) ==
  LET t == 10 * basic_eval + k
      bonus == times_tenth(k)
      at == IF t < 0 THEN -t ELSE t
      below == at \in {5, 10, 20, 40, 80, 160}
                 /\ ((t > 0 /\ bonus.err < 0) \/ (t < 0 /\ bonus.err > 0))
      s == Binade(at) - (IF below THEN 1 ELSE 0) + 4
  IN IF t = 0 THEN 0
     ELSE t * ErrScale + bonus.err
            + 10 * RoundAdjust(bonus.low % Pow2(s + 1), s)

\* an int as a double
float_of(n) == 10 * n * ErrScale

improved_static_evaluation(b) ==
  IF white_win(b) THEN float_of(100)
  ELSE IF black_win(b) THEN float_of(-100)
  ELSE LET basic_eval == index_or(b, "W", 16) + index_or(b, "B", -1) - 15
           num_white_moves == Len(generate_white_moves(b))
           num_black_moves == Len(generate_black_moves(b))
       IN float_add(basic_eval, num_white_moves - num_black_moves)

\* eval_fn(board)
apply_eval(fn, b) ==
  IF fn = "static_evaluation" THEN static_evaluation(b)
  ELSE improved_static_evaluation(b)

-----------------------------------------------------------------------------
(* minimax and alphabeta.  A result is [eval, move, count]: the returned   *)
(* pair and positions_evaluated[0] after the call.                         *)

is_leaf_depth_only(b, d) == d = 0
is_leaf(b, d) == d = 0 \/ white_win(b) \/ black_win(b)

\* positions_evaluated[0] += 1; return eval_fn(board), board
minimax_leaf_uncounted(b, fn, positions_evaluated) ==
  [eval |-> apply_eval(fn, b), move |-> b, count |-> positions_evaluated]
minimax_leaf(b, fn, positions_evaluated) ==
  [eval |-> apply_eval(fn, b), move |-> b, count |-> positions_evaluated + 1]
alphabeta_leaf(b, fn, positions_evaluated) ==
  [eval |-> apply_eval(fn, b), move |-> b, count |-> positions_evaluated + 1]

successors(b, white) ==
  IF white THEN generate_white_moves(b) ELSE generate_black_moves(b)

\* eval_value > best_eval for White, eval_value < best_eval for Black
improves(white, eval_value, best_eval) ==
  IF white THEN eval_value > best_eval ELSE eval_value < best_eval

RECURSIVE minimax(_, _, _, _, _), minimax_loop(_, _, _, _, _, _, _, _)

minimax(b, d, white, fn, positions_evaluated) ==
  IF is_leaf(b, d) THEN minimax_leaf(b, fn, positions_evaluated)
  ELSE minimax_loop(successors(b, white), 1, d, white, fn,
                    IF white THEN NegInf ELSE PosInf, None, positions_evaluated)

minimax_loop(moves, n, d, white, fn, best_eval, best_move, positions_evaluated) ==
  IF n > Len(moves)
    THEN [eval |-> best_eval, move |-> best_move, count |-> positions_evaluated]
  ELSE
    LET r == minimax(moves[n], d - 1, ~white, fn, positions_evaluated)
        better == improves(white, r.eval, best_eval)
    IN IF better
         THEN minimax_loop(moves, n + 1, d, white, fn, r.eval, moves[n], r.count)
       ELSE minimax_loop(moves, n + 1, d, white, fn, best_eval, best_move, r.count)

max(x, y) == IF x >= y THEN x ELSE y
min(x, y) == IF x <= y THEN x ELSE y

\* if beta <= alpha: break
cutoff_swapped(alpha, beta) == alpha <= beta
cutoff(alpha, beta) == beta <= alpha

RECURSIVE alphabeta(_, _, _, _, _, _, _), alphabeta_loop(_, _, _, _, _, _, _, _, _, _)

alphabeta(b, d, alpha, beta, white, fn, positions_evaluated) ==
  IF is_leaf(b, d) THEN alphabeta_leaf(b, fn, positions_evaluated)
  ELSE alphabeta_loop(successors(b, white), 1, d, alpha, beta, white, fn,
                      IF white THEN NegInf ELSE PosInf, None, positions_evaluated)

alphabeta_loop(moves, n, d, alpha, beta, white, fn, best_eval, best_move, positions_evaluated) ==
  IF n > Len(moves)
    THEN [eval |-> best_eval, move |-> best_move, count |-> positions_evaluated]
  ELSE
    LET r == alphabeta(moves[n], d - 1, alpha, beta, ~white, fn, positions_evaluated)
        better == improves(white, r.eval, best_eval)
        new_eval == IF better THEN r.eval ELSE best_eval
        new_move == IF better THEN moves[n] ELSE best_move
        new_alpha == IF white THEN max(alpha, new_eval) ELSE alpha
        new_beta == IF white THEN beta ELSE min(beta, new_eval)
    IN IF cutoff(new_alpha, new_beta)
         THEN [eval |-> new_eval, move |-> new_move, count |-> r.count]
       ELSE alphabeta_loop(moves, n + 1, d, new_alpha, new_beta, white, fn,
                           new_eval, new_move, r.count)

\* minimaxblack.py: flip, search as White with static_evaluation, flip back.
\* flip(None) raises TypeError and no board is written: the move stays None.
minimaxblack_main_not_flipped_back(b, d) ==
  minimax(flip(b), d, TRUE, "static_evaluation", 0)

minimaxblack_main(b, d) ==
  LET r == minimax(flip(b), d, TRUE, "static_evaluation", 0)
  IN [eval |-> r.eval,
      move |-> IF r.move = None THEN None ELSE flip(r.move),
      count |-> r.count]

-----------------------------------------------------------------------------
(* Starting positions.  Play starts with at most MaxPieces pieces, each on *)
(* one of the three cells at either end of the board; the searches are     *)
(* handed at most MaxPieces pieces, each on one of the two cells at either *)
(* end.                                                                    *)

StartCells == {0, 1, 2, LastCell - 2, LastCell - 1, LastCell}
EndCells == {0, 1, LastCell - 1, LastCell}

pieces(b) == {i \in Cells : b[i] # "x"}
white_cells(b) == {i \in Cells : b[i] \in {"W", "w"}}
black_cells(b) == {i \in Cells : b[i] \in {"B", "b"}}

positions(cells) ==
  {b \in {[i \in Cells |-> IF i \in cells THEN f[i] ELSE "x"] :
            f \in [cells -> Symbols]} :
     Cardinality(pieces(b)) <= MaxPieces}

StartBoards == positions(StartCells)
SearchBoards == positions(EndCells)

Evaluators == {"static_evaluation", "improved_static_evaluation"}
Pending == [eval |-> 0, move |-> None, count |-> 0]

\* the cell of the n-th white piece, the one whose loop iteration appends
\* the n-th successor
nth_white_cell(b, n) ==
  CHOOSE i \in white_cells(b) :
    Cardinality({c \in white_cells(b) : c <= i}) = n

\* play goes on while both kings stand, as the search recursion does
game_over_when_both(b) == white_win(b) /\ black_win(b)
game_over(b) == white_win(b) \/ black_win(b)

-----------------------------------------------------------------------------
(* Play: either side applies one generated move *)

Init ==
  /\ board \in StartBoards
  /\ prev = board
  /\ mover = "none"
  /\ origin = 0
  /\ plies = 0
  /\ kings_at_start = (~white_win(board) /\ ~black_win(board))
  /\ depth = 0
  /\ is_white_turn = TRUE
  /\ eval_fn = "static_evaluation"
  /\ mm = Pending
  /\ ab = Pending
  /\ bw = Pending

WhiteMove ==
  /\ plies < MaxPlies
  /\ ~game_over(board)
  /\ \E n \in 1..Len(generate_white_moves(board)) :
       /\ board' = generate_white_moves(board)[n]
       /\ origin' = nth_white_cell(board, n)
  /\ prev' = board
  /\ mover' = "white"
  /\ plies' = plies + 1
  /\ UNCHANGED <<kings_at_start, depth, is_white_turn, eval_fn, mm, ab, bw>>

BlackMove ==
  /\ plies < MaxPlies
  /\ ~game_over(board)
  /\ \E n \in 1..Len(generate_black_moves(board)) :
       /\ board' = generate_black_moves(board)[n]
       /\ origin' = nth_white_cell(flip(board), n)
  /\ prev' = board
  /\ mover' = "black"
  /\ plies' = plies + 1
  /\ UNCHANGED <<kings_at_start, depth, is_white_turn, eval_fn, mm, ab, bw>>

Next == WhiteMove \/ BlackMove

Spec == Init /\ [][Next]_vars

-----------------------------------------------------------------------------
(* Search: one position, depth, side and evaluator, handed to minimax,     *)
(* then to alphabeta with the full window, then to the Black wrapper.  The *)
(* calls share no state, so their order does not change their results.     *)

InitSearch ==
  /\ board \in SearchBoards
  /\ prev = board
  /\ mover = "none"
  /\ origin = 0
  /\ plies = 0
  /\ kings_at_start = (~white_win(board) /\ ~black_win(board))
  /\ depth \in 0..MaxDepth
  /\ is_white_turn \in BOOLEAN
  /\ eval_fn \in Evaluators
  /\ mm = Pending
  /\ ab = Pending
  /\ bw = Pending

CallMinimax ==
  /\ mm = Pending
  /\ mm' = minimax(board, depth, is_white_turn, eval_fn, 0)
  /\ UNCHANGED <<board, prev, mover, origin, plies, kings_at_start, depth,
                 is_white_turn, eval_fn, ab, bw>>

CallAlphabeta ==
  /\ mm # Pending
  /\ ab = Pending
  /\ ab' = alphabeta(board, depth, NegInf, PosInf, is_white_turn, eval_fn, 0)
  /\ UNCHANGED <<board, prev, mover, origin, plies, kings_at_start, depth,
                 is_white_turn, eval_fn, mm, bw>>

CallMinimaxBlack ==
  /\ ab # Pending
  /\ bw = Pending
  /\ ~is_white_turn
  /\ eval_fn = "static_evaluation"
  /\ bw' = minimaxblack_main(board, depth)
  /\ UNCHANGED <<board, prev, mover, origin, plies, kings_at_start, depth,
                 is_white_turn, eval_fn, mm, ab>>

NextSearch == CallMinimax \/ CallAlphabeta \/ CallMinimaxBlack

SpecSearch == InitSearch /\ [][NextSearch]_vars

-----------------------------------------------------------------------------
(* Vocabulary of the properties *)

kings(b, king) == {i \in Cells : b[i] = king}
both_kings(b) == ~white_win(b) /\ ~black_win(b)

\* the successor generate_white_moves holds for the white piece at i: the
\* list has its successors in the order of the pieces
successor_of(b, i) ==
  generate_white_moves(b)[Cardinality({c \in white_cells(b) : c <= i})]

\* a white piece at i, a black piece next to it, and the cell behind empty
capture_case(b, i) ==
  /\ i <= LastCell - 2
  /\ b[i] \in {"W", "w"}
  /\ b[i + 1] \in {"B", "b"}
  /\ b[i + 2] = "x"

\* no cell to the right of the landing cell i + 2 is empty
full_beyond(b, i) == \A c \in (i + 3)..LastCell : b[c] # "x"

\* the rightmost cell that is empty once the piece at i stands on i + 2
rightmost_empty_after_jump(b, i) ==
  SetMax({c \in Cells : [b EXCEPT ![i + 2] = b[i], ![i] = "x"][c] = "x"})

searched == mm # Pending /\ ab # Pending

-----------------------------------------------------------------------------
(* C1: called at the root with the full window, alphabeta returns the same *)
(* score and the same chosen board as minimax on the same board, depth,    *)
(* side and evaluator, ties among the root successors included.            *)
C1_AlphabetaReturnsMinimaxPair ==
  searched => (ab.eval = mm.eval /\ ab.move = mm.move)

\* both searches ran on a position where two root successors tie for the
\* best score and alphabeta cut some position off
C1_Witness ==
  /\ searched
  /\ depth >= 2
  /\ both_kings(board)
  /\ ab.count < mm.count
  /\ \E n1, n2 \in 1..Len(successors(board, is_white_turn)) :
       /\ n1 < n2
       /\ minimax(successors(board, is_white_turn)[n1], depth - 1,
                  ~is_white_turn, eval_fn, 0).eval = mm.eval
       /\ minimax(successors(board, is_white_turn)[n2], depth - 1,
                  ~is_white_turn, eval_fn, 0).eval = mm.eval

(* C2: alphabeta evaluates at most as many positions as minimax on the     *)
(* same board, depth, side and evaluator.                                  *)
C2_AlphabetaEvaluatesNoMore ==
  searched => ab.count <= mm.count

\* alphabeta evaluated strictly fewer positions, under the improved evaluator
C2_Witness ==
  /\ searched
  /\ eval_fn = "improved_static_evaluation"
  /\ depth = MaxDepth
  /\ ab.count >= 2
  /\ ab.count < mm.count

(* C4: minimax and alphabeta never return a placeholder board: at depth 0  *)
(* or with a king missing they return the input board, and otherwise a     *)
(* board of the successor list of the side to move with a finite score.    *)
real_board(r) ==
  IF depth = 0 \/ white_win(board) \/ black_win(board)
    THEN r.move = board
  ELSE /\ r.move # None
       /\ \E n \in 1..Len(successors(board, is_white_turn)) :
            r.move = successors(board, is_white_turn)[n]
       /\ r.eval # PosInf
       /\ r.eval # NegInf

C4_NoPlaceholderBoard ==
  /\ mm # Pending => real_board(mm)
  /\ ab # Pending => real_board(ab)

\* both searches chose a successor of a position where the side to move
\* is Black and has a single piece
C4_Witness ==
  /\ searched
  /\ depth >= 1
  /\ both_kings(board)
  /\ ~is_white_turn
  /\ Cardinality(black_cells(board)) = 1
  /\ mm.move # board
  /\ ab.move # board

(* C5 as stated: static_evaluation is 100 exactly when no W is on the      *)
(* board, -100 exactly when no B is on the board, and within -15..15       *)
(* otherwise.                                                              *)
C5_Original ==
  /\ static_evaluation(board) = 100 <=> white_win(board)
  /\ static_evaluation(board) = -100 <=> black_win(board)
  /\ both_kings(board) => static_evaluation(board) \in -15..15

(* C5 amended: static_evaluation is 100 exactly when no W is on the board, *)
(* -100 exactly when no B is on the board while a W is, and within -15..15 *)
(* otherwise.                                                              *)
C5_EvaluationValues ==
  /\ static_evaluation(board) = 100 <=> white_win(board)
  /\ static_evaluation(board) = -100 <=> (black_win(board) /\ ~white_win(board))
  /\ both_kings(board) => static_evaluation(board) \in -15..15

\* minimax evaluated, at depth 0, a board with pieces and neither king
C5_Witness ==
  /\ mm # Pending
  /\ depth = 0
  /\ eval_fn = "static_evaluation"
  /\ white_win(board) /\ black_win(board)
  /\ pieces(board) # {}
  /\ mm.eval = 100

(* C9 as stated: for every board with at least one king, the Black wrapper *)
(* (search flip(b) as White, flip the chosen board back) returns the board *)
(* minimax chooses for Black on b, and the negated score.                  *)
C9_Original ==
  (/\ mm # Pending /\ bw # Pending
   /\ ~is_white_turn /\ eval_fn = "static_evaluation"
   /\ ~(white_win(board) /\ black_win(board)))
  => (bw.move = mm.move /\ bw.eval = -mm.eval)

(* C9 amended: the same, for every board with at least one king and at     *)
(* most one W and at most one B.                                           *)
C9_WrapperEqualsBlackSearch ==
  (/\ mm # Pending /\ bw # Pending
   /\ ~is_white_turn /\ eval_fn = "static_evaluation"
   /\ ~(white_win(board) /\ black_win(board))
   /\ Cardinality(kings(board, "W")) <= 1
   /\ Cardinality(kings(board, "B")) <= 1)
  => (bw.move = mm.move /\ bw.eval = -mm.eval)

\* the wrapper and the search for Black ran at depth 2 or more on a board
\* with one king a side where Black has two pieces to choose from
C9_Witness ==
  /\ mm # Pending /\ bw # Pending
  /\ depth >= 2
  /\ Cardinality(kings(board, "W")) = 1
  /\ Cardinality(kings(board, "B")) = 1
  /\ Cardinality(black_cells(board)) >= 2
  /\ mm.move # board
  /\ bw.move = mm.move
  /\ mm.eval # 0

-----------------------------------------------------------------------------
(* C3: where a white piece at i has a black piece on i + 1 and i + 2 is    *)
(* empty, its successor has the white piece on i + 2, cell i + 1 empty and *)
(* the black piece on the rightmost cell that is empty after the jump; the *)
(* number of black pieces is unchanged.  WBxxxxxxxxxxxxxx has exactly the  *)
(* one successor xxWxxxxxxxxxxxxB.                                         *)
C3_CaptureRelocates ==
  /\ \A i \in Cells :
       capture_case(board, i) =>
         LET after == successor_of(board, i)
         IN /\ after[i + 2] = board[i]
            /\ after[i + 1] = "x"
            /\ after[rightmost_empty_after_jump(board, i)] = board[i + 1]
            /\ Cardinality(black_cells(after)) = Cardinality(black_cells(board))
  /\ board = read_board(<<"W", "B", "x", "x", "x", "x", "x", "x",
                          "x", "x", "x", "x", "x", "x", "x", "x">>)
       => generate_white_moves(board)
            = <<read_board(<<"x", "x", "W", "x", "x", "x", "x", "x",
                             "x", "x", "x", "x", "x", "x", "x", "B">>)>>

\* White has just captured: the black piece left the cell next to the origin
\* for another cell
C3_Witness ==
  /\ mover = "white"
  /\ capture_case(prev, origin)
  /\ board = successor_of(prev, origin)
  /\ board[origin + 1] = "x"
  /\ black_cells(board) # black_cells(prev)
  /\ Cardinality(black_cells(board)) >= 2

(* C6: in a play that starts with both kings on the board and stops at the *)
(* first board where white_win or black_win holds, no board has both       *)
(* white_win and black_win.                                                *)
C6_NeverBothWins ==
  kings_at_start => ~(white_win(board) /\ black_win(board))

\* a play from both kings has ended with the move that took a king off
C6_Witness ==
  /\ kings_at_start
  /\ plies >= 2
  /\ both_kings(prev)
  /\ game_over(board)

(* C7: generate_white_moves returns one successor for each W or w on the   *)
(* board, generate_black_moves one for each B or b.                        *)
C7_OneSuccessorPerPiece ==
  /\ Len(generate_white_moves(board)) = Cardinality(white_cells(board))
  /\ Len(generate_black_moves(board)) = Cardinality(black_cells(board))

\* White has just jumped over more than one piece, on a board where both
\* sides have two pieces or more
C7_Witness ==
  /\ mover = "white"
  /\ origin + 3 <= LastCell
  /\ prev[origin + 1] # "x" /\ prev[origin + 2] # "x"
  /\ board[origin + 3] = prev[origin]
  /\ Cardinality(white_cells(prev)) >= 2
  /\ Cardinality(black_cells(prev)) >= 2

(* C8: flip is an involution: flip(flip(b)) = b.                           *)
C8_FlipInvolution ==
  flip(flip(board)) = board

\* Black has just moved (a flip, a white move, a flip back) on a board that
\* holds all four kinds of piece
C8_Witness ==
  /\ mover = "black"
  /\ {board[i] : i \in Cells} = Symbols
  /\ flip(board) # board

(* C10 as stated: the successor of the white piece at i has cell i empty,  *)
(* whichever rule moved the piece.                                         *)
C10_Original ==
  \A i \in white_cells(board) : successor_of(board, i)[i] = "x"

(* C10 amended: the successor of the white piece at i has cell i empty,    *)
(* except after a capture with no empty cell to the right of i + 2, where  *)
(* cell i holds the captured black piece.                                  *)
C10_OriginVacated ==
  \A i \in white_cells(board) :
    IF capture_case(board, i) /\ full_beyond(board, i)
      THEN successor_of(board, i)[i] = board[i + 1]
    ELSE successor_of(board, i)[i] = "x"

\* White has just captured with no empty cell beyond the landing cell, and
\* the captured piece stands on the origin
C10_Witness ==
  /\ mover = "white"
  /\ capture_case(prev, origin)
  /\ full_beyond(prev, origin)
  /\ board[origin] = prev[origin + 1]
  /\ board[origin + 2] = prev[origin]
=============================================================================
